---- MODULE Spec2Model ----
(***************************************************************************)
(* The training loop of train.py: train() drives epochs of optimisation    *)
(* steps with a report every 100 batches, then evaluate() and              *)
(* save_checkpoint() at each epoch boundary.  The process may be killed at  *)
(* any step and started again with --resume_model pointing at the latest    *)
(* checkpoint.  utils/checkpoint.py is not part of the sources at hand:     *)
(* save_checkpoint and load_checkpoint follow the written description of    *)
(* the Checkpoint Manager.                                                  *)
(***************************************************************************)
EXTENDS Integers, Sequences, FiniteSets

\* ------------------------------------------------------------------ bounds
MaxEpochs == 3
MaxRestarts == 1
MaxTestBatches == 2
SmallLoaderLen == 3
MaxReportEpochs == 2
NumWorkers == 1

\* batch_id % 100 == 0 (train.py:141)
report_interval == 100

\* ---------------------------------------------------------------- rationals
\* Error rates are floats; they are kept as exact fractions <<n, d>>, d > 0.
RECURSIVE GCD(_, _)
GCD(a, b) == IF b = 0 THEN a ELSE GCD(b, a % b)

Abs(x) == IF x < 0 THEN -x ELSE x

Rat(n, d) == LET g == GCD(Abs(n), d) IN IF n = 0 THEN <<0, 1>> ELSE <<n \div g, d \div g>>

RatAdd(a, b) == Rat(a[1] * b[2] + b[1] * a[2], a[2] * b[2])

RatLess(a, b) == a[1] * b[2] < b[1] * a[2]

RatNeg(a) == <<-a[1], a[2]>>

RECURSIVE RatSum(_)
RatSum(s) == IF s = <<>> THEN <<0, 1>> ELSE RatAdd(s[1], RatSum(Tail(s)))

RECURSIVE SumSeq(_)
SumSeq(s) == IF s = <<>> THEN 0 ELSE s[1] + SumSeq(Tail(s))

\* sum(xs) / len(xs): Python raises ZeroDivisionError for an empty list; the
\* raised error is the fraction with denominator 0
ZeroDivisionError == <<0, 0>>

Mean(xs) ==
    IF Len(xs) = 0
    THEN ZeroDivisionError
    ELSE Rat(RatSum(xs)[1], RatSum(xs)[2] * Len(xs))

\* int(x) of Python truncates towards zero
TruncDiv(a, b) == IF a >= 0 THEN a \div b ELSE -((-a) \div b)

\* ------------------------------------------------------------------ inputs
\* per-example error rates returned by cer()/wer()
ErrorRates == {<<1, 5>>, <<1, 4>>, <<3, 10>>}

\* len(train_loader): none, one, a few
LoaderLens == {0, 1, SmallLoaderLen}

\* len(train_loader) of the long runs: none, one, one more than one and than two
\* report intervals
ReportLoaderLens == {0, 1, report_interval + 1, 2 * report_interval + 1}

\* wall-clock milliseconds of one training step
StepMillis == {400, 1500}

\* the loss of a step, identified by the step that produced it
LossOf(e, b) == <<e, b>>

\* ------------------------------------------------------------------- state
VARIABLES
    num_epoch,        \* args.num_epoch
    resume_model,     \* args.resume_model is set
    train_loader_len, \* len(train_loader), batches yielded per epoch
    test_loader_len,  \* batches yielded by test_loader()
    step_ms,          \* duration of a training step of this process
    pc,               \* position of the process in train()/evaluate()
    last_epoch,
    error_rate,       \* the local of train() set at lines 112-114
    train_step,
    max_step,
    epoch_iter,       \* next value of range(last_epoch, num_epoch)
    epoch_id,
    batch_iter,       \* next index of enumerate(train_loader())
    batch_id,
    train_times,
    loss_sum,
    model_mode,       \* "train" or "eval": model.train() / model.eval()
    sched_steps,      \* calls of scheduler.step() in this process
    opt_steps,        \* calls of optimizer.step() in this process
    test_iter,        \* batches of test_loader() consumed by evaluate()
    error_results,
    error_result,
    report_log,       \* logger.info records of line 146, this process
    save_calls,       \* number of save_checkpoint calls of this process
    last_save,        \* <<>> or <<arguments of the last save_checkpoint call>>
    executed,         \* epoch ids the epoch loop entered, this process
    store,            \* the checkpoint directory on disk
    saved_epochs,     \* epochs whose save completed since the directory was empty
    seen_best,        \* <<>> or <<the saved epoch with the lowest evaluate() result>>
    restarts,
    killed,           \* <<>> or <<epoch in progress at the last kill>>
    resumed,          \* <<>> or <<what was on disk when this process loaded it>>
    pretrained_model, \* args.pretrained_model is set
    workers,          \* the further processes of a multi-card launch of train()
    eval_calls,       \* calls of evaluate() in this process
    failure,          \* "none", or the collaborator whose exception left train()
    model_weights,    \* where the parameters of model were taken from
    optimizer_state   \* where the state of optimizer was taken from

vars == <<num_epoch, resume_model, train_loader_len, test_loader_len, step_ms, pc,
          last_epoch, error_rate, train_step, max_step, epoch_iter, epoch_id,
          batch_iter, batch_id, train_times, loss_sum, model_mode, sched_steps,
          opt_steps, test_iter, error_results, error_result, report_log, save_calls,
          last_save, executed, store, saved_epochs, seen_best, restarts, killed,
          resumed, pretrained_model, workers, eval_calls, failure, model_weights,
          optimizer_state>>

argVars == <<num_epoch, train_loader_len, test_loader_len, pretrained_model, workers>>
auxVars == <<eval_calls, failure, model_weights, optimizer_state>>
histVars == <<saved_epochs, seen_best, restarts, killed>>
saveVars == <<save_calls, last_save>>

\* ---------------------------------------------------- Checkpoint Manager
EmptyStore == [latest |-> <<>>, best |-> <<>>]

\* save: publishes the checkpoint of `epoch` atomically and, when error_rate is
\* strictly lower than the best recorded alongside the last checkpoint (or none
\* is recorded yet), republishes the snapshot into the best slot.
save_checkpoint(st, epoch, rate) ==
    LET better == st.latest = <<>> \/ RatLess(rate, st.latest[1].best_error_rate)
        best_rate == IF better THEN rate ELSE st.latest[1].best_error_rate
    IN [latest |-> <<[epoch |-> epoch, error_rate |-> rate, best_error_rate |-> best_rate]>>,
        best |-> IF better THEN <<[epoch |-> epoch, error_rate |-> rate]>> ELSE st.best]

\* load: the epoch index at which to resume (the checkpointed epoch is not
\* repeated) and the best error rate recorded so far.
\* A source without a readable checkpoint is an error raised to the caller.
LoadError == [raised |-> "load_checkpoint"]

load_checkpoint(st) ==
    IF st.latest = <<>>
    THEN LoadError
    ELSE [last_epoch |-> st.latest[1].epoch + 1, error_rate |-> st.latest[1].best_error_rate]

\* pretrained weights: the model's parameters only
load_pretrained(weights) == "pretrained"

\* ------------------------------------------------------------ train(): pure parts
\* a train() that starts afresh when the checkpoint cannot be loaded
ResumeState_Fallback(resume, st) ==
    IF resume /\ st.latest # <<>>
    THEN load_checkpoint(st)
    ELSE [last_epoch |-> 0, error_rate |-> <<1, 1>>]

\* a train() that never reads the checkpoint it is asked to resume from
ResumeState_Ignored(resume, st) == [last_epoch |-> 0, error_rate |-> <<1, 1>>]

\* last_epoch, error_rate = 0, 1; if args.resume_model: ... = load_checkpoint(...)
ResumeState(resume, st) ==
    IF resume THEN load_checkpoint(st) ELSE [last_epoch |-> 0, error_rate |-> <<1, 1>>]

\* the parameters, optimizer state, epoch and best error rate train() starts from
StartFrom(r, weights, resume) ==
    IF r = LoadError
    THEN LoadError
    ELSE [last_epoch |-> r.last_epoch,
          error_rate |-> r.error_rate,
          model_weights |-> IF resume THEN "checkpoint" ELSE weights,
          optimizer_state |-> IF resume THEN "checkpoint" ELSE "fresh"]

\* an elif in place of the second if: the checkpoint is not read when
\* pretrained weights are given
StartState_PretrainedWins(pretrained, resume, st) ==
    IF pretrained
    THEN StartFrom(ResumeState(FALSE, st), load_pretrained("random"), FALSE)
    ELSE StartFrom(ResumeState(resume, st), "random", resume)

\* lines 109-114: if args.pretrained_model: load_pretrained; then
\* if args.resume_model: load_checkpoint
StartState(pretrained, resume, st) ==
    StartFrom(ResumeState(resume, st),
              IF pretrained THEN load_pretrained("random") ELSE "random",
              resume)

\* max_step without the number of epochs to run
MaxStep_OneEpoch(len, epochs, last) == len

\* max_step one epoch short
MaxStep_EpochShort(len, epochs, last) == len * (epochs - last - 1)

\* max_step = len(train_loader) * (args.num_epoch - last_epoch)
MaxStep(len, epochs, last) == len * (epochs - last)

\* range(args.num_epoch): last_epoch not used
EpochRangeStart_Zero(last) == 0

\* a loop that starts again at the epoch before last_epoch
EpochRangeStart_Repeat(last) == IF last > 0 THEN last - 1 ELSE last

\* first value of range(last_epoch, args.num_epoch)
EpochRangeStart(last) == last

\* the append of the step's value lost
Record_Dropped(window, value) == window

\* loss_sum.append(float(loss)); train_times.append((time.time() - start) * 1000)
Record(window, value) == Append(window, value)

\* a scheduler advanced once per epoch, at its first batch
SchedStepsAfter_PerEpoch(n, b) == IF b = 0 THEN n + 1 ELSE n

\* scheduler.step()
SchedStepsAfter(n, b) == n + 1

\* a batch loop left after its first batch
Exhausted_AfterFirst(iter, len) == iter >= len \/ iter >= 1

\* for batch_id, batch in enumerate(train_loader()): no batch is left
Exhausted(iter, len) == iter >= len

\* the step counter restarted with every epoch
TrainStepAfter_PerEpoch(step, b) == b + 1

\* train_step += 1
TrainStepAfter(step, b) == step + 1

\* the report at the last batch of each hundred instead of the first
ShouldReport_Late(b) == (b + 1) % report_interval = 0

\* if batch_id % 100 == 0
ShouldReport(b) == b % report_interval = 0

\* train_eta_sec = (sum(train_times) / len(train_times)) * (max_step - train_step) / 1000
\* and int(train_eta_sec)
TrainEtaSec(times, remaining) == TruncDiv(SumSeq(times) * remaining, Len(times) * 1000)

\* error_rate, the local loaded at line 114, in place of error_result
SaveArgs_LoadedRate(e, result, loaded_rate) == [epoch |-> e, error_rate |-> loaded_rate]

\* the accuracy 1 - error_result in place of the error rate
SaveArgs_Accuracy(e, result, loaded_rate) ==
    [epoch |-> e, error_rate |-> RatAdd(<<1, 1>>, RatNeg(result))]

\* the arguments train() hands to save_checkpoint
SaveArgs(e, result, loaded_rate) == [epoch |-> e, error_rate |-> result]

\* a train() that skips the checkpoint of an epoch without a measured error rate
AfterEvaluate_SkipSentinel(result) == IF RatLess(result, <<0, 1>>) THEN "epoch" ELSE "save"

\* where train() goes once evaluate() has returned
AfterEvaluate(result) == "save"

\* evaluate() without the guard on an empty list
EvalResult_NoGuard(results) == Mean(results)

\* error_result = float(sum(error_results) / len(error_results)) if len(error_results) > 0 else -1
EvalResult(results) ==
    IF Len(results) > 0 THEN Mean(results) ELSE <<-1, 1>>

\* the mode evaluate() leaves the model in: model.train() at line 180
ModeAfterEvaluate == "train"

\* the mode the model is left in when predict, the decoder or the metric raises
\* inside evaluate(): lines 166-178 have no try/finally, line 180 is not reached
ModeOnEvaluateError(mode) == mode

\* an except clause that goes on with the next batch
OnStepError_Continue == "batch"

\* where train() goes when lines 127-131 raise: no try/except, the exception
\* leaves train()
OnStepError == "failed"

\* line 140 says that only one process of a multi-card run prints; line 141
\* tests batch_id alone, whatever the rank of the process
PrintsReport(rank, b) == ShouldReport(b)

\* -------------------------------------------------------------------- Init
\* the state of a first process over an empty checkpoint directory
Fresh ==
    /\ pc = "start"
    /\ eval_calls = 0
    /\ failure = "none"
    /\ model_weights = "random"
    /\ optimizer_state = "fresh"
    /\ last_epoch = 0
    /\ error_rate = <<1, 1>>
    /\ train_step = 0
    /\ max_step = 0
    /\ epoch_iter = 0
    /\ epoch_id = 0
    /\ batch_iter = 0
    /\ batch_id = 0
    /\ train_times = <<>>
    /\ loss_sum = <<>>
    /\ model_mode = "train"
    /\ sched_steps = 0
    /\ opt_steps = 0
    /\ test_iter = 0
    /\ error_results = <<>>
    /\ error_result = <<0, 1>>
    /\ report_log = <<>>
    /\ save_calls = 0
    /\ last_save = <<>>
    /\ executed = <<>>
    /\ store = EmptyStore
    /\ saved_epochs = {}
    /\ seen_best = <<>>
    /\ restarts = 0
    /\ killed = <<>>
    /\ resumed = <<>>

Init ==
    /\ num_epoch \in 0..MaxEpochs
    /\ train_loader_len \in LoaderLens
    /\ test_loader_len \in 0..MaxTestBatches
    /\ step_ms \in StepMillis
    /\ resume_model = FALSE
    /\ pretrained_model = FALSE
    /\ workers = <<>>
    /\ Fresh

\* long training sets, for the reports of every 100 batches
InitReport ==
    /\ num_epoch \in 1..MaxReportEpochs
    /\ train_loader_len \in ReportLoaderLens
    /\ test_loader_len \in 0..1
    /\ step_ms \in StepMillis
    /\ resume_model = FALSE
    /\ pretrained_model = FALSE
    /\ workers = <<>>
    /\ Fresh

\* a multi-card launch: rank 0 and NumWorkers further processes at the start of
\* their loops over the same train loader
InitWorkers ==
    /\ num_epoch \in 1..2
    /\ train_loader_len \in {1, SmallLoaderLen}
    /\ test_loader_len \in 0..1
    /\ step_ms \in StepMillis
    /\ resume_model = FALSE
    /\ pretrained_model = FALSE
    /\ workers = [w \in 1..NumWorkers |->
                    [pc |-> "batch", epoch_id |-> 0, batch_iter |-> 0, batch_id |-> 0,
                     train_step |-> 0, log |-> {}]]
    /\ Fresh

\* every combination of --resume_model and --pretrained_model on the command line
InitArgs ==
    /\ num_epoch \in 0..MaxEpochs
    /\ train_loader_len \in {1, SmallLoaderLen}
    /\ test_loader_len \in 0..1
    /\ step_ms \in StepMillis
    /\ resume_model \in BOOLEAN
    /\ pretrained_model \in BOOLEAN
    /\ workers = <<>>
    /\ Fresh

\* ----------------------------------------------------------------- actions
\* lines 109-120: resume, model.train(), train_step = 0, max_step
Start ==
    /\ pc = "start"
    /\ LET r == StartState(pretrained_model, resume_model, store) IN
         IF r = LoadError
         THEN /\ pc' = "failed"
              /\ failure' = "load"
              /\ UNCHANGED <<last_epoch, error_rate, max_step, epoch_iter, resumed, model_mode,
                             train_step, model_weights, optimizer_state>>
         ELSE /\ last_epoch' = r.last_epoch
              /\ error_rate' = r.error_rate
              /\ model_weights' = r.model_weights
              /\ optimizer_state' = r.optimizer_state
              /\ max_step' = MaxStep(train_loader_len, num_epoch, r.last_epoch)
              /\ epoch_iter' = EpochRangeStart(r.last_epoch)
              /\ resumed' = IF resume_model /\ store.latest # <<>>
                            THEN <<[epoch |-> store.latest[1].epoch, best |-> seen_best[1]]>>
                            ELSE <<>>
              /\ model_mode' = "train"
              /\ train_step' = 0
              /\ pc' = "epoch"
              /\ UNCHANGED failure
    /\ UNCHANGED <<argVars, histVars, resume_model, step_ms, epoch_id, batch_iter, batch_id,
                   train_times, loss_sum, sched_steps, opt_steps, test_iter, error_results,
                   error_result, report_log, saveVars, executed, store, eval_calls>>

\* line 121-124: the for statement yields the next epoch_id
EpochBegin ==
    /\ pc = "epoch"
    /\ epoch_iter < num_epoch
    /\ epoch_id' = epoch_iter
    /\ epoch_iter' = epoch_iter + 1
    /\ train_times' = <<>>
    /\ loss_sum' = <<>>
    /\ batch_iter' = 0
    /\ executed' = Append(executed, epoch_iter)
    /\ pc' = "batch"
    /\ UNCHANGED <<argVars, auxVars, resumed, histVars, resume_model, step_ms, last_epoch, error_rate, train_step,
                   max_step, batch_id, model_mode, sched_steps, opt_steps, test_iter,
                   error_results, error_result, report_log, saveVars, store>>

\* line 121: range exhausted, train() returns
EpochsDone ==
    /\ pc = "epoch"
    /\ epoch_iter >= num_epoch
    /\ pc' = "done"
    /\ UNCHANGED <<argVars, auxVars, resumed, histVars, resume_model, step_ms, last_epoch, error_rate, train_step,
                   max_step, epoch_iter, epoch_id, batch_iter, batch_id, train_times, loss_sum,
                   model_mode, sched_steps, opt_steps, test_iter, error_results, error_result,
                   report_log, saveVars, executed, store>>

\* lines 125-129: the loader yields a batch; forward, loss, backward
Forward ==
    /\ pc = "batch"
    /\ ~Exhausted(batch_iter, train_loader_len)
    /\ batch_id' = batch_iter
    /\ batch_iter' = batch_iter + 1
    /\ pc' = "optimizer"
    /\ UNCHANGED <<argVars, auxVars, resumed, histVars, resume_model, step_ms, last_epoch, error_rate, train_step,
                   max_step, epoch_iter, epoch_id, train_times, loss_sum, model_mode,
                   sched_steps, opt_steps, test_iter, error_results, error_result, report_log,
                   saveVars, executed, store>>

\* lines 130-131: optimizer.step(); optimizer.clear_grad()
OptimizerStep ==
    /\ pc = "optimizer"
    /\ opt_steps' = opt_steps + 1
    /\ pc' = "scheduler"
    /\ UNCHANGED <<argVars, auxVars, resumed, histVars, resume_model, step_ms, last_epoch, error_rate, train_step,
                   max_step, epoch_iter, epoch_id, batch_iter, batch_id, train_times, loss_sum,
                   model_mode, sched_steps, test_iter, error_results, error_result, report_log,
                   saveVars, executed, store>>

\* lines 132-138: scheduler.step(), the window appends, train_step += 1
SchedulerStep ==
    /\ pc = "scheduler"
    /\ sched_steps' = SchedStepsAfter(sched_steps, batch_id)
    /\ loss_sum' = Record(loss_sum, LossOf(epoch_id, batch_id))
    /\ train_times' = Record(train_times, step_ms)
    /\ train_step' = TrainStepAfter(train_step, batch_id)
    /\ pc' = "report"
    /\ UNCHANGED <<argVars, auxVars, resumed, histVars, resume_model, step_ms, last_epoch, error_rate, max_step,
                   epoch_iter, epoch_id, batch_iter, batch_id, model_mode, opt_steps, test_iter,
                   error_results, error_result, report_log, saveVars, executed, store>>

\* lines 141-151: the report; sum(...) / len(...) raises ZeroDivisionError on an
\* empty window
Report ==
    /\ pc = "report"
    /\ ShouldReport(batch_id)
    /\ IF Len(train_times) = 0 \/ Len(loss_sum) = 0
       THEN /\ pc' = "raised"
            /\ UNCHANGED <<report_log, train_times, loss_sum>>
       ELSE /\ report_log' = Append(report_log,
                                [epoch_id |-> epoch_id,
                                 batch_id |-> batch_id,
                                 train_step |-> train_step,
                                 losses |-> loss_sum,
                                 n_times |-> Len(train_times),
                                 remaining |-> max_step - train_step,
                                 eta |-> TrainEtaSec(train_times, max_step - train_step)])
            /\ train_times' = <<>>
            /\ loss_sum' = <<>>
            /\ pc' = "batch"
    /\ UNCHANGED <<argVars, auxVars, resumed, histVars, resume_model, step_ms, last_epoch, error_rate, train_step,
                   max_step, epoch_iter, epoch_id, batch_iter, batch_id, model_mode,
                   sched_steps, opt_steps, test_iter, error_results, error_result, saveVars,
                   executed, store>>

\* line 141 false: straight to line 152 and the next batch
NoReport ==
    /\ pc = "report"
    /\ ~ShouldReport(batch_id)
    /\ pc' = "batch"
    /\ UNCHANGED <<argVars, auxVars, resumed, histVars, resume_model, step_ms, last_epoch, error_rate, train_step,
                   max_step, epoch_iter, epoch_id, batch_iter, batch_id, train_times, loss_sum,
                   model_mode, sched_steps, opt_steps, test_iter, error_results, error_result,
                   report_log, saveVars, executed, store>>

\* lines 154-155, 164-166: the loader is exhausted; evaluate() is entered
EvaluateBegin ==
    /\ pc = "batch"
    /\ Exhausted(batch_iter, train_loader_len)
    /\ model_mode' = "eval"
    /\ error_results' = <<>>
    /\ test_iter' = 0
    /\ eval_calls' = eval_calls + 1
    /\ pc' = "eval_batch"
    /\ UNCHANGED <<argVars, failure, model_weights, optimizer_state, resumed, histVars, resume_model, step_ms, last_epoch, error_rate, train_step,
                   max_step, epoch_iter, epoch_id, batch_iter, batch_id, train_times, loss_sum,
                   sched_steps, opt_steps, error_result, report_log, saveVars, executed, store>>

\* lines 167-178: one batch of the test loader, one example per batch
EvaluateBatch ==
    /\ pc = "eval_batch"
    /\ test_iter < test_loader_len
    /\ \E r \in ErrorRates : error_results' = Append(error_results, r)
    /\ test_iter' = test_iter + 1
    /\ UNCHANGED <<argVars, auxVars, resumed, histVars, resume_model, step_ms, pc, last_epoch, error_rate,
                   train_step, max_step, epoch_iter, epoch_id, batch_iter, batch_id,
                   train_times, loss_sum, model_mode, sched_steps, opt_steps, error_result,
                   report_log, saveVars, executed, store>>

\* lines 179-181 and 155: the mean or -1, model.train(), return to train()
EvaluateEnd ==
    /\ pc = "eval_batch"
    /\ test_iter >= test_loader_len
    /\ IF EvalResult(error_results) = ZeroDivisionError
       THEN /\ pc' = "raised"
            /\ UNCHANGED <<error_result, model_mode>>
       ELSE /\ error_result' = EvalResult(error_results)
            /\ model_mode' = ModeAfterEvaluate
            /\ pc' = AfterEvaluate(EvalResult(error_results))
    /\ UNCHANGED <<argVars, auxVars, resumed, histVars, resume_model, step_ms, last_epoch, error_rate, train_step,
                   max_step, epoch_iter, epoch_id, batch_iter, batch_id, train_times, loss_sum,
                   sched_steps, opt_steps, test_iter, error_results, report_log, saveVars,
                   executed, store>>

\* lines 159-160: save_checkpoint(model, optimizer, epoch_id, ..., error_rate=error_result)
Save ==
    /\ pc = "save"
    /\ LET a == SaveArgs(epoch_id, error_result, error_rate) IN
         /\ store' = save_checkpoint(store, a.epoch, a.error_rate)
         /\ last_save' = <<a>>
    /\ save_calls' = save_calls + 1
    /\ saved_epochs' = saved_epochs \cup {epoch_id}
    /\ seen_best' = IF seen_best = <<>> \/ RatLess(error_result, seen_best[1].error_rate)
                    THEN <<[epoch |-> epoch_id, error_rate |-> error_result]>>
                    ELSE seen_best
    /\ pc' = "epoch"
    /\ UNCHANGED <<argVars, auxVars, resumed, resume_model, step_ms, last_epoch, error_rate, train_step, max_step,
                   epoch_iter, epoch_id, batch_iter, batch_id, train_times, loss_sum,
                   model_mode, sched_steps, opt_steps, test_iter, error_results, error_result,
                   report_log, executed, restarts, killed>>

InEpoch == pc \in {"batch", "optimizer", "scheduler", "report", "eval_batch", "save"}

\* the process is terminated from outside, anywhere in train(): its memory
\* (model, optimizer, scheduler, locals) is gone, the checkpoint directory stays
Kill ==
    /\ pc \in {"start", "epoch", "batch", "optimizer", "scheduler", "report", "eval_batch", "save"}
    /\ restarts < MaxRestarts
    /\ killed' = IF InEpoch THEN <<epoch_id>> ELSE <<>>
    /\ pc' = "dead"
    /\ last_epoch' = 0
    /\ error_rate' = <<1, 1>>
    /\ train_step' = 0
    /\ max_step' = 0
    /\ epoch_iter' = 0
    /\ epoch_id' = 0
    /\ batch_iter' = 0
    /\ batch_id' = 0
    /\ train_times' = <<>>
    /\ loss_sum' = <<>>
    /\ model_mode' = "train"
    /\ sched_steps' = 0
    /\ opt_steps' = 0
    /\ test_iter' = 0
    /\ error_results' = <<>>
    /\ error_result' = <<0, 1>>
    /\ report_log' = <<>>
    /\ save_calls' = 0
    /\ last_save' = <<>>
    /\ executed' = <<>>
    /\ resumed' = <<>>
    /\ eval_calls' = 0
    /\ failure' = "none"
    /\ model_weights' = "random"
    /\ optimizer_state' = "fresh"
    /\ UNCHANGED <<argVars, resume_model, step_ms, store, saved_epochs, seen_best, restarts>>

\* a new process: a fresh model, optimizer and scheduler; --resume_model names
\* the latest checkpoint when one was written
Restart ==
    /\ pc \in {"dead", "done"}
    /\ restarts < MaxRestarts
    /\ restarts' = restarts + 1
    /\ resume_model' = (store.latest # <<>>)
    /\ killed' = IF pc = "done" THEN <<>> ELSE killed
    /\ pc' = "start"
    /\ last_epoch' = 0
    /\ error_rate' = <<1, 1>>
    /\ train_step' = 0
    /\ max_step' = 0
    /\ epoch_iter' = 0
    /\ epoch_id' = 0
    /\ batch_iter' = 0
    /\ batch_id' = 0
    /\ train_times' = <<>>
    /\ loss_sum' = <<>>
    /\ model_mode' = "train"
    /\ sched_steps' = 0
    /\ opt_steps' = 0
    /\ test_iter' = 0
    /\ error_results' = <<>>
    /\ error_result' = <<0, 1>>
    /\ report_log' = <<>>
    /\ save_calls' = 0
    /\ last_save' = <<>>
    /\ executed' = <<>>
    /\ resumed' = <<>>
    /\ eval_calls' = 0
    /\ failure' = "none"
    /\ model_weights' = "random"
    /\ optimizer_state' = "fresh"
    /\ UNCHANGED <<argVars, step_ms, store, saved_epochs, seen_best>>

\* a new process started by hand: --resume_model is given, with any
\* --num_epoch and with or without --pretrained_model
Relaunch ==
    /\ pc \in {"dead", "done"}
    /\ restarts < MaxRestarts
    /\ restarts' = restarts + 1
    /\ resume_model' = TRUE
    /\ num_epoch' \in 0..MaxEpochs
    /\ pretrained_model' \in BOOLEAN
    /\ killed' = IF pc = "done" THEN <<>> ELSE killed
    /\ pc' = "start"
    /\ last_epoch' = 0
    /\ error_rate' = <<1, 1>>
    /\ train_step' = 0
    /\ max_step' = 0
    /\ epoch_iter' = 0
    /\ epoch_id' = 0
    /\ batch_iter' = 0
    /\ batch_id' = 0
    /\ train_times' = <<>>
    /\ loss_sum' = <<>>
    /\ model_mode' = "train"
    /\ sched_steps' = 0
    /\ opt_steps' = 0
    /\ test_iter' = 0
    /\ error_results' = <<>>
    /\ error_result' = <<0, 1>>
    /\ report_log' = <<>>
    /\ save_calls' = 0
    /\ last_save' = <<>>
    /\ executed' = <<>>
    /\ resumed' = <<>>
    /\ eval_calls' = 0
    /\ failure' = "none"
    /\ model_weights' = "random"
    /\ optimizer_state' = "fresh"
    /\ UNCHANGED <<train_loader_len, test_loader_len, workers, step_ms, store, saved_epochs,
                   seen_best>>

\* lines 127-129 raise: model(...), ctc_loss(...) or loss.backward()
ForwardFail ==
    /\ pc = "batch"
    /\ ~Exhausted(batch_iter, train_loader_len)
    /\ batch_id' = batch_iter
    /\ batch_iter' = batch_iter + 1
    /\ failure' = "forward"
    /\ pc' = OnStepError
    /\ UNCHANGED <<argVars, resumed, histVars, resume_model, step_ms, last_epoch, error_rate,
                   train_step, max_step, epoch_iter, epoch_id, train_times, loss_sum,
                   model_mode, sched_steps, opt_steps, test_iter, error_results, error_result,
                   report_log, saveVars, executed, store, eval_calls, model_weights,
                   optimizer_state>>

\* line 130 raises: optimizer.step()
OptimizerFail ==
    /\ pc = "optimizer"
    /\ failure' = "optimizer"
    /\ pc' = OnStepError
    /\ UNCHANGED <<argVars, resumed, histVars, resume_model, step_ms, last_epoch, error_rate,
                   train_step, max_step, epoch_iter, epoch_id, batch_iter, batch_id,
                   train_times, loss_sum, model_mode, sched_steps, opt_steps, test_iter,
                   error_results, error_result, report_log, saveVars, executed, store,
                   eval_calls, model_weights, optimizer_state>>

\* lines 169-177 raise inside evaluate(): predict, the decoder or the metric
EvaluateFail ==
    /\ pc = "eval_batch"
    /\ test_iter < test_loader_len
    /\ failure' = "evaluate"
    /\ model_mode' = ModeOnEvaluateError(model_mode)
    /\ pc' = "failed"
    /\ UNCHANGED <<argVars, resumed, histVars, resume_model, step_ms, last_epoch, error_rate,
                   train_step, max_step, epoch_iter, epoch_id, batch_iter, batch_id,
                   train_times, loss_sum, sched_steps, opt_steps, test_iter, error_results,
                   error_result, report_log, saveVars, executed, store, eval_calls,
                   model_weights, optimizer_state>>

\* the variables of rank 0 and of the disk, which a step of another rank leaves alone
rankZeroVars == <<num_epoch, resume_model, train_loader_len, test_loader_len, step_ms, pc,
                  last_epoch, error_rate, train_step, max_step, epoch_iter, epoch_id,
                  batch_iter, batch_id, train_times, loss_sum, model_mode, sched_steps,
                  opt_steps, test_iter, error_results, error_result, report_log, save_calls,
                  last_save, executed, store, saved_epochs, seen_best, restarts, killed,
                  resumed, pretrained_model, eval_calls, failure, model_weights,
                  optimizer_state>>

\* lines 125-138 in the process of rank w: one batch, train_step += 1
WorkerStep(w) ==
    /\ workers[w].pc = "batch"
    /\ ~Exhausted(workers[w].batch_iter, train_loader_len)
    /\ workers' = [workers EXCEPT ![w] =
                     [@ EXCEPT !.batch_id = workers[w].batch_iter,
                               !.batch_iter = workers[w].batch_iter + 1,
                               !.train_step = TrainStepAfter(workers[w].train_step,
                                                             workers[w].batch_iter),
                               !.pc = "report"]]
    /\ UNCHANGED rankZeroVars

\* lines 140-151 in the process of rank w: the report line for its train_step
WorkerReport(w) ==
    /\ workers[w].pc = "report"
    /\ PrintsReport(w, workers[w].batch_id)
    /\ workers' = [workers EXCEPT ![w] =
                     [@ EXCEPT !.log = workers[w].log \cup {workers[w].train_step},
                               !.pc = "batch"]]
    /\ UNCHANGED rankZeroVars

\* line 141 false in the process of rank w
WorkerNoReport(w) ==
    /\ workers[w].pc = "report"
    /\ ~PrintsReport(w, workers[w].batch_id)
    /\ workers' = [workers EXCEPT ![w] = [@ EXCEPT !.pc = "batch"]]
    /\ UNCHANGED rankZeroVars

\* lines 121-125 in the process of rank w: the loader is exhausted, the next
\* epoch starts or the loop ends
WorkerEpochEnd(w) ==
    /\ workers[w].pc = "batch"
    /\ Exhausted(workers[w].batch_iter, train_loader_len)
    /\ workers' = [workers EXCEPT ![w] =
                     IF workers[w].epoch_id + 1 < num_epoch
                     THEN [@ EXCEPT !.epoch_id = workers[w].epoch_id + 1, !.batch_iter = 0]
                     ELSE [@ EXCEPT !.pc = "done"]]
    /\ UNCHANGED rankZeroVars

Next ==
    \/ Start
    \/ EpochBegin
    \/ EpochsDone
    \/ Forward
    \/ OptimizerStep
    \/ SchedulerStep
    \/ Report
    \/ NoReport
    \/ EvaluateBegin
    \/ EvaluateBatch
    \/ EvaluateEnd
    \/ Save
    \/ Kill
    \/ Restart

Spec == Init /\ [][Next]_vars

SpecReport == InitReport /\ [][Next]_vars

NextArgs == Next \/ Relaunch

\* train() with collaborators that may raise
NextFail == Next \/ ForwardFail \/ OptimizerFail \/ EvaluateFail

SpecFail == Init /\ [][NextFail]_vars

\* train() launched once per card
NextWorkers ==
    \/ Next
    \/ \E w \in DOMAIN workers : WorkerStep(w)
    \/ \E w \in DOMAIN workers : WorkerReport(w)
    \/ \E w \in DOMAIN workers : WorkerNoReport(w)
    \/ \E w \in DOMAIN workers : WorkerEpochEnd(w)

SpecWorkers == InitWorkers /\ [][NextWorkers]_vars

SpecArgs == InitArgs /\ [][NextArgs]_vars

\* ------------------------------------------------------------------ claims
Max(a, b) == IF a >= b THEN a ELSE b

Last(q) == q[Len(q)]

\* C1: a process that resumed from the checkpoint of epoch e enters the epochs
\* e+1, e+2, ... in order, and when train() returns it has entered exactly
\* e+1 .. num_epoch-1; epoch e is not entered again.
ResumeNeverRepeatsEpoch ==
    (resumed # <<>>) =>
        LET e == resumed[1].epoch IN
          /\ \A i \in 1..Len(executed) : executed[i] = e + i
          /\ pc = "done" => Len(executed) = Max(num_epoch - 1 - e, 0)

ResumeNeverRepeatsEpoch_Witness ==
    /\ pc = "done"
    /\ resumed # <<>>
    /\ resumed[1].epoch = 0
    /\ executed = <<1, 2>>

\* C2: when train() returns, with B = len(train_loader), s = last_epoch and
\* T = num_epoch, the step counter is B*(T-s), scheduler.step() ran B*(T-s)
\* times and save_checkpoint ran T-s times.
RunTotals ==
    pc = "done" =>
        /\ train_step = train_loader_len * (num_epoch - last_epoch)
        /\ sched_steps = train_loader_len * (num_epoch - last_epoch)
        /\ save_calls = num_epoch - last_epoch

RunTotals_Witness ==
    /\ pc = "done"
    /\ train_loader_len = 3
    /\ last_epoch = 0
    /\ num_epoch = 2
    /\ train_step = 6
    /\ sched_steps = 6
    /\ save_calls = 2

\* C3: an epoch whose save completed is never trained again, in this process
\* or after a kill, and a process started after a kill begins at the very epoch
\* that was in progress when the kill came: one epoch's work at most is redone.
KillLosesAtMostOneEpoch ==
    /\ InEpoch => epoch_id \notin saved_epochs
    /\ (restarts > 0 /\ killed # <<>> /\ pc \notin {"start", "dead"}) => last_epoch = killed[1]

KillLosesAtMostOneEpoch_Witness ==
    /\ restarts > 0
    /\ killed = <<1>>
    /\ pc = "optimizer"
    /\ epoch_id = 1
    /\ saved_epochs = {0}

\* C4: the best slot holds the snapshot of the saved epoch whose evaluate()
\* result is the lowest so far (the earliest such epoch), and nothing else; it
\* is empty only while nothing was saved.
BestSlotHoldsLowest ==
    /\ (store.best = <<>>) <=> (saved_epochs = {})
    /\ store.best = seen_best

BestSlotHoldsLowest_Witness ==
    /\ saved_epochs = {0, 1, 2}
    /\ store.best # <<>>
    /\ store.best[1].epoch = 1
    /\ store.latest[1].epoch = 2
    /\ RatLess(store.best[1].error_rate, store.latest[1].error_rate)

\* C5: in a process that resumed, a save of an epoch whose evaluate() result is
\* not strictly lower than the best error rate of the epochs saved before the
\* restart leaves the best slot as it is.
BestComparisonSurvivesRestart ==
    [][(/\ pc = "save"
        /\ pc' = "epoch"
        /\ resumed # <<>>
        /\ ~RatLess(error_result, resumed[1].best.error_rate))
       => store'.best = store.best]_vars

BestComparisonSurvivesRestart_Witness ==
    /\ resumed # <<>>
    /\ pc = "epoch"
    /\ save_calls = 1
    /\ ~RatLess(error_result, resumed[1].best.error_rate)
    /\ error_result # resumed[1].best.error_rate
    /\ store.latest[1].epoch = resumed[1].epoch + 1
    /\ store.best = <<resumed[1].best>>

\* C6: with a test loader that yields no batch, evaluate() does not raise, its
\* result is -1, and the model is in training mode once it has returned.
EvaluateEmptyIsMinusOne ==
    /\ pc # "raised"
    /\ (test_loader_len = 0 /\ pc \in {"save", "epoch"} /\ executed # <<>>) =>
          /\ error_result = <<-1, 1>>
          /\ model_mode = "train"

EvaluateEmptyIsMinusOne_Witness ==
    /\ test_loader_len = 0
    /\ pc = "save"
    /\ error_result = <<-1, 1>>
    /\ model_mode = "train"

\* C7: every epoch the loop entered has had its save_checkpoint call by the
\* time the loop asks for the next epoch, whether evaluate() returned -1 or a
\* measured error rate.
SaveEveryEpoch ==
    pc \in {"epoch", "done"} =>
        /\ save_calls = Len(executed)
        /\ executed # <<>> => (last_save # <<>> /\ last_save[1].epoch = Last(executed))

SaveEveryEpoch_Witness ==
    /\ pc = "done"
    /\ test_loader_len = 0
    /\ error_result = <<-1, 1>>
    /\ save_calls = 2
    /\ saved_epochs = {0, 1}

\* the reports of the current epoch
ReportsOf(e) == {i \in DOMAIN report_log : report_log[i].epoch_id = e}

\* C8 as stated: every report comes at a multiple of 100 steps and is computed
\* over a window of exactly 100 losses and 100 durations.
ReportWindowIsInterval ==
    \A i \in DOMAIN report_log :
        /\ report_log[i].train_step % report_interval = 0
        /\ Len(report_log[i].losses) = report_interval
        /\ report_log[i].n_times = report_interval

\* C8, amended: a report comes exactly when batch_id % 100 = 0, one record each;
\* the first report of an epoch is computed over the 1 step of batch 0, every
\* later one over the 100 steps since the previous report; the window is empty
\* right after a report.
ReportEveryHundredBatches ==
    /\ \A i \in DOMAIN report_log :
         LET r == report_log[i]
             n == IF r.batch_id = 0 THEN 1 ELSE report_interval
         IN /\ r.batch_id % report_interval = 0
            /\ r.n_times = n
            /\ r.losses = [k \in 1..n |-> LossOf(r.epoch_id, r.batch_id - n + k)]
    /\ (pc = "batch" /\ batch_iter > 0) =>
         /\ Cardinality(ReportsOf(epoch_id)) = ((batch_iter - 1) \div report_interval) + 1
         /\ Len(loss_sum) = (batch_iter - 1) % report_interval
         /\ Len(train_times) = (batch_iter - 1) % report_interval

ReportEveryHundredBatches_Witness ==
    /\ pc = "batch"
    /\ batch_iter = 2 * report_interval + 1
    /\ loss_sum = <<>>
    /\ Len(report_log) >= 3
    /\ Len(Last(report_log).losses) = report_interval

\* C9: the averages of a report are never taken over an empty window, nothing
\* raises, and a train loader without batches produces no step and no report.
NoAverageOverEmptyWindow ==
    /\ pc # "raised"
    /\ pc = "report" => (Len(train_times) > 0 /\ Len(loss_sum) > 0)
    /\ \A i \in DOMAIN report_log :
         report_log[i].n_times > 0 /\ Len(report_log[i].losses) > 0
    /\ train_loader_len = 0 =>
         (pc \notin {"optimizer", "scheduler", "report"} /\ report_log = <<>> /\ train_step = 0)

NoAverageOverEmptyWindow_Witness ==
    /\ train_loader_len = 0
    /\ pc = "done"
    /\ executed = <<0, 1>>
    /\ save_calls = 2

\* C10: the estimate of a report is never negative, and it is 0 when no step
\* remains.
EtaNeverNegative ==
    \A i \in DOMAIN report_log :
        /\ report_log[i].eta >= 0
        /\ report_log[i].remaining <= 0 => report_log[i].eta = 0

EtaNeverNegative_Witness ==
    /\ report_log # <<>>
    /\ Last(report_log).remaining = 0
    /\ Last(report_log).eta = 0
    /\ Last(report_log).batch_id = report_interval
    /\ report_log[1].eta > 0

\* C12: a process asked to resume whose checkpoint could not be loaded has
\* stopped on that error, and has run no step, no evaluation and no save.
FailedResumeIsFatal ==
    (resume_model /\ resumed = <<>> /\ pc \notin {"start", "dead"}) =>
        /\ pc = "failed"
        /\ failure = "load"
        /\ executed = <<>>
        /\ train_step = 0
        /\ opt_steps = 0
        /\ eval_calls = 0
        /\ save_calls = 0

FailedResumeIsFatal_Witness ==
    /\ restarts = 1
    /\ resume_model
    /\ pc = "failed"
    /\ failure = "load"
    /\ store = EmptyStore

\* C13: with both --pretrained_model and --resume_model, the epoch loop starts
\* after the checkpointed epoch and the optimizer state is the checkpoint's;
\* with --pretrained_model alone the epoch index stays 0 and the optimizer fresh.
ResumeTakesPrecedence ==
    /\ (pretrained_model /\ resume_model /\ pc \notin {"start", "dead", "failed"}) =>
          /\ resumed # <<>>
          /\ last_epoch = resumed[1].epoch + 1
          /\ optimizer_state = "checkpoint"
          /\ \A i \in 1..Len(executed) : executed[i] = resumed[1].epoch + i
    /\ (pretrained_model /\ ~resume_model /\ pc \notin {"start", "dead", "failed"}) =>
          /\ last_epoch = 0
          /\ optimizer_state = "fresh"
          /\ model_weights = "pretrained"

ResumeTakesPrecedence_Witness ==
    /\ pretrained_model
    /\ resume_model
    /\ pc = "optimizer"
    /\ resumed # <<>>
    /\ resumed[1].epoch = 0
    /\ epoch_id = 1
    /\ optimizer_state = "checkpoint"

\* C14: within a process epoch_id never decreases; a resumed process enters no
\* epoch below the one recorded in its checkpoint, and a process started after
\* a kill enters no epoch below the one in progress at the kill.
EpochNeverDecreases ==
    /\ [][(pc \notin {"start", "dead"} /\ pc' \notin {"start", "dead"}) => epoch_id' >= epoch_id]_vars
    /\ [](resumed # <<>> => \A i \in 1..Len(executed) : executed[i] >= resumed[1].epoch)
    /\ []((restarts > 0 /\ killed # <<>>) => \A i \in 1..Len(executed) : executed[i] >= killed[1])

EpochNeverDecreases_Witness ==
    /\ restarts > 0
    /\ killed = <<2>>
    /\ resumed # <<>>
    /\ resumed[1].epoch = 1
    /\ pc = "scheduler"
    /\ epoch_id = 2

\* C15: during the training steps of the n-th epoch of a process, n-1
\* evaluations and n-1 saves have run; evaluate() starts only when all batches
\* of the epoch are trained; the save follows the evaluation; the next epoch
\* starts with n evaluations and n saves done.
EpochOrder ==
    LET n == Len(executed) IN
      /\ pc \in {"batch", "optimizer", "scheduler", "report"} =>
           (eval_calls = n - 1 /\ save_calls = n - 1)
      /\ pc \in {"eval_batch", "save"} =>
           /\ eval_calls = n
           /\ save_calls = n - 1
           /\ batch_iter = train_loader_len
           /\ opt_steps = n * train_loader_len
           /\ train_step = n * train_loader_len
      /\ pc \in {"epoch", "done"} => (eval_calls = n /\ save_calls = n)

EpochOrder_Witness ==
    /\ pc = "optimizer"
    /\ Len(executed) = 2
    /\ batch_id = 0
    /\ opt_steps = 3
    /\ eval_calls = 1
    /\ save_calls = 1

\* batches the loader has yielded in this process
Consumed == IF executed = <<>> THEN 0 ELSE (Len(executed) - 1) * train_loader_len + batch_iter

\* C16: train_step and the scheduler count every consumed batch once; the
\* scheduler is advanced after the optimizer step of the batch and before the
\* next batch is fetched, and nowhere else.
SchedulerOncePerBatch ==
    /\ [](pc = "optimizer" =>
            (sched_steps = Consumed - 1 /\ opt_steps = Consumed - 1 /\ train_step = Consumed - 1))
    /\ [](pc = "scheduler" =>
            (sched_steps = Consumed - 1 /\ opt_steps = Consumed /\ train_step = Consumed - 1))
    /\ [](pc \in {"epoch", "batch", "report", "eval_batch", "save", "done"} =>
            (sched_steps = Consumed /\ opt_steps = Consumed /\ train_step = Consumed))
    /\ [][(sched_steps' # sched_steps /\ pc' \notin {"start", "dead"}) =>
            (pc = "scheduler" /\ sched_steps' = sched_steps + 1 /\ train_step' = train_step + 1)]_vars

SchedulerOncePerBatch_Witness ==
    /\ pc = "scheduler"
    /\ Len(executed) = 2
    /\ batch_id = 1
    /\ opt_steps = 5
    /\ sched_steps = 4
    /\ train_step = 4

SentinelNeverBest ==
    /\ (last_save # <<>> /\ pc \in {"epoch", "done"}) => last_save[1].error_rate = error_result
    /\ store.best # <<>> => ~RatLess(store.best[1].error_rate, <<0, 1>>)

\* C11: across the processes of a multi-card launch, no train_step has more
\* than one report line.
SingleLogWriter ==
    /\ \A w \in DOMAIN workers : \A i \in DOMAIN report_log :
         report_log[i].train_step \notin workers[w].log
    /\ \A v, w \in DOMAIN workers : v # w => workers[v].log \cap workers[w].log = {}

\* C17: outside evaluate() the model is in training mode, also after an
\* exception has left evaluate().
EvaluateRestoresTrainMode ==
    pc # "eval_batch" => model_mode = "train"

StepFailures == {"forward", "optimizer"}

\* C18: once a training step has raised, train() has ended on that error: the
\* scheduler and train_step do not count the failed batch, its loss is not in
\* the window, the evaluation and the save of the epoch have not run, and
\* nothing runs afterwards.
FailedStepEndsTrain ==
    /\ [](failure \in StepFailures =>
            /\ pc = "failed"
            /\ sched_steps = Consumed - 1
            /\ train_step = Consumed - 1
            /\ opt_steps = Consumed - 1
            /\ Len(loss_sum) = Len(train_times)
            /\ \A i \in 1..Len(loss_sum) : loss_sum[i] # LossOf(epoch_id, batch_id)
            /\ eval_calls = Len(executed) - 1
            /\ save_calls = Len(executed) - 1)
    /\ [][failure \notin StepFailures]_vars

FailedStepEndsTrain_Witness ==
    /\ failure = "optimizer"
    /\ pc = "failed"
    /\ Len(executed) = 2
    /\ batch_id = 1
    /\ train_step = 4
    /\ sched_steps = 4
    /\ loss_sum = <<>>
    /\ save_calls = 1


====
